---- MODULE Spec2Model ----
(***************************************************************************)
(* Library-management backend (authors, books, clients, loans).           *)
(*                                                                         *)
(* The stored tables are the state.  Each HTTP request is a task that      *)
(* occupies one slot of req; a handler that makes several repository       *)
(* calls is cut into one action per stretch of code that ends with a       *)
(* repository call whose result the next stretch depends on, so that       *)
(* requests interleave at the database accesses (no request holds a lock). *)
(* Time is counted in ticks, TicksPerDay of them to a day; money in        *)
(* hundredths of the currency unit.  A row's id is its position in its     *)
(* table.  Of a book only the columns are kept, not its categories.        *)
(***************************************************************************)
EXTENDS Integers, Sequences, FiniteSets, TLC

VARIABLES authors, books, clients, loans, clock, req

vars == <<authors, books, clients, loans, clock, req>>

stores == <<authors, books, clients, loans>>

(***************************************************************************)
(* Bounds of the model.                                                    *)
(***************************************************************************)
NumTasks == 2
MaxLoans == 3
MaxClients == 2
MaxAuthors == 2
TicksPerDay == 2

Tasks == 1..NumTasks

(***************************************************************************)
(* Optional values: Python's None and a present value.                     *)
(***************************************************************************)
None == <<>>
Some(v) == <<v>>
Val(o) == o[1]

(***************************************************************************)
(* Program constants.                                                      *)
(***************************************************************************)
\* timedelta(days=7)
LoanDays == 7
\* days_overdue * 0.5, in hundredths
FineRate == 50

NotFound == 404
BadRequest == 400
Ok == 200
Created == 201
ServerError == 500

(***************************************************************************)
(* Request slots.                                                          *)
(***************************************************************************)
Idle == [op |-> "none", pc |-> "idle", id |-> 0, id2 |-> 0, body |-> <<>>, ent |-> None, status |-> 0]

Free(t) == req[t].pc \in {"idle", "done"}

Done(op, id, id2, body, status) ==
    [op |-> op, pc |-> "done", id |-> id, id2 |-> id2, body |-> body, ent |-> None, status |-> status]

Running(op, pc, id, id2, body, ent) ==
    [op |-> op, pc |-> pc, id |-> id, id2 |-> id2, body |-> body, ent |-> ent, status |-> 0]

(***************************************************************************)
(* Repository layer: list / get / add / update per entity, plus the        *)
(* availability query of the book repository.                              *)
(***************************************************************************)
RepoGet(table, id) == IF id \in 1..Len(table) THEN Some(table[id]) ELSE None

RepoAdd(table, entity) == Append(table, entity)

\* writes the fields the handler assigned, leaves the other columns alone
RepoUpdate(table, id, changes) ==
    [table EXCEPT ![id] = [f \in DOMAIN @ |-> IF f \in DOMAIN changes THEN changes[f] ELSE @[f]]]

IsBookAvailable(book_id) ==
    ~ \E i \in 1..Len(loans) : loans[i].book_id = book_id /\ loans[i].return_date = None

(***************************************************************************)
(* LoanController.create_loan                                              *)
(***************************************************************************)
\* mutant: the 404 only when both lookups fail
CreateLoanMissingBoth(book, client) == book = None /\ client = None

CreateLoanMissing(book, client) == book = None \/ client = None

\* mutant: the polarity the message suggests
CreateLoanRejectsUnavailable(available) == ~ available

CreateLoanRejects(available) == available

\* mutant: the new loan is stamped as returned
NewLoanReturned(book_id, client_id, loan_date) ==
    [book_id |-> book_id, client_id |-> client_id, loan_date |-> loan_date,
     return_date |-> Some(loan_date), fine |-> None]

NewLoan(book_id, client_id, loan_date) ==
    [book_id |-> book_id, client_id |-> client_id, loan_date |-> loan_date,
     return_date |-> None, fine |-> None]

\* the request arrives; both lookups and the 404
CreateLoanGet(t, book_id, client_id) ==
    /\ Free(t)
    /\ LET book == RepoGet(books, book_id)
           client == RepoGet(clients, client_id)
       IN  IF CreateLoanMissing(book, client)
           THEN req' = [req EXCEPT ![t] = Done("create_loan", book_id, client_id, <<>>, NotFound)]
           ELSE req' = [req EXCEPT ![t] = Running("create_loan", "cl_check", book_id, client_id, <<>>, None)]
    /\ UNCHANGED <<stores, clock>>

\* mutant: the check and the insert as one step
CreateLoanCheckAtomic(t) ==
    /\ req[t].pc = "cl_check"
    /\ IF CreateLoanRejects(IsBookAvailable(req[t].id))
       THEN /\ req' = [req EXCEPT ![t] = Done("create_loan", @.id, @.id2, <<>>, BadRequest)]
            /\ loans' = loans
       ELSE /\ Len(loans) < MaxLoans
            /\ loans' = RepoAdd(loans, NewLoan(req[t].id, req[t].id2, clock))
            /\ req' = [req EXCEPT ![t] = Done("create_loan", @.id, @.id2, <<>>, Created)]
    /\ UNCHANGED <<authors, books, clients, clock>>

\* the availability query, the 400, and the construction of the Loan
CreateLoanCheck(t) ==
    /\ req[t].pc = "cl_check"
    /\ IF CreateLoanRejects(IsBookAvailable(req[t].id))
       THEN req' = [req EXCEPT ![t] = Done("create_loan", @.id, @.id2, <<>>, BadRequest)]
       ELSE req' = [req EXCEPT ![t].pc = "cl_add",
                               ![t].ent = Some(NewLoan(req[t].id, req[t].id2, clock))]
    /\ UNCHANGED <<stores, clock>>

\* loans_repo.add(loan) and the response
CreateLoanAdd(t) ==
    /\ req[t].pc = "cl_add"
    /\ Len(loans) < MaxLoans
    /\ loans' = RepoAdd(loans, Val(req[t].ent))
    /\ req' = [req EXCEPT ![t] = Done("create_loan", @.id, @.id2, <<>>, Created)]
    /\ UNCHANGED <<authors, books, clients, clock>>

(***************************************************************************)
(* LoanController.return_loan                                              *)
(***************************************************************************)
\* mutant: the double-return check dropped
AlreadyReturnedNever(loan) == FALSE

AlreadyReturned(loan) == loan.return_date # None

DueDate(loan_date) == loan_date + LoanDays * TicksPerDay

\* timedelta.days of a positive difference
DaysOverdue(return_date, due_date) == (return_date - due_date) \div TicksPerDay

\* mutant: the fine pro rata of the overdue time, not of its whole days
FineAmountProRata(return_date, due_date) == ((return_date - due_date) * FineRate) \div TicksPerDay

FineAmount(return_date, due_date) == DaysOverdue(return_date, due_date) * FineRate

\* mutant: overdue from the due instant on
IsOverdueFromDue(return_date, due_date) == return_date >= due_date

IsOverdue(return_date, due_date) == return_date > due_date

\* the attributes return_loan assigns on the loaded loan
ReturnChanges(loan, now) ==
    IF IsOverdue(now, DueDate(loan.loan_date))
    THEN [return_date |-> Some(now), fine |-> Some(FineAmount(now, DueDate(loan.loan_date)))]
    ELSE [return_date |-> Some(now)]

\* the request arrives; the lookup, the 404, the 400, and the assignments
ReturnLoanGet(t, loan_id) ==
    /\ Free(t)
    /\ LET loan == RepoGet(loans, loan_id)
       IN  IF loan = None
           THEN req' = [req EXCEPT ![t] = Done("return_loan", loan_id, 0, <<>>, NotFound)]
           ELSE IF AlreadyReturned(Val(loan))
           THEN req' = [req EXCEPT ![t] = Done("return_loan", loan_id, 0, <<>>, BadRequest)]
           ELSE req' = [req EXCEPT ![t] = Running("return_loan", "rl_update", loan_id, 0, <<>>,
                                                  Some(ReturnChanges(Val(loan), clock)))]
    /\ UNCHANGED <<stores, clock>>

\* loans_repo.update(loan) and the response
ReturnLoanUpdate(t) ==
    /\ req[t].pc = "rl_update"
    /\ loans' = RepoUpdate(loans, req[t].id, Val(req[t].ent))
    /\ req' = [req EXCEPT ![t] = Done("return_loan", @.id, 0, <<>>, Ok)]
    /\ UNCHANGED <<authors, books, clients, clock>>

(***************************************************************************)
(* ClientController                                                        *)
(***************************************************************************)
ClientFields == {"name", "email"}

ClientBodies == {[name |-> "ana", email |-> "ana@x"], [name |-> "ana"]}

\* a write view without partial=True: every field is required
ValidWrite(body, required) == required \subseteq DOMAIN body

ListClients(t) ==
    /\ Free(t)
    /\ req' = [req EXCEPT ![t] = Done("list_clients", 0, 0, <<>>,
                                      IF clients = <<>> THEN NotFound ELSE Ok)]
    /\ UNCHANGED <<stores, clock>>

CreateClient(t, body) ==
    /\ Free(t)
    /\ IF ValidWrite(body, ClientFields)
       THEN /\ Len(clients) < MaxClients
            /\ clients' = RepoAdd(clients, body)
            /\ req' = [req EXCEPT ![t] = Done("create_client", 0, 0, body, Created)]
       ELSE /\ clients' = clients
            /\ req' = [req EXCEPT ![t] = Done("create_client", 0, 0, body, BadRequest)]
    /\ UNCHANGED <<authors, books, loans, clock>>

(***************************************************************************)
(* The clock read by datetime.utcnow().                                    *)
(***************************************************************************)
\* The instants at which requests are served: the start, then exactly 7 days,
\* 7.5 days, 8.5 days and 9 days later.
Instants ==
    {0, LoanDays * TicksPerDay, LoanDays * TicksPerDay + 1,
     (LoanDays + 1) * TicksPerDay + 1, (LoanDays + 2) * TicksPerDay}

Tick ==
    /\ \E i \in Instants : i > clock
    /\ clock' = CHOOSE i \in Instants : i > clock /\ \A j \in Instants : j > clock => i <= j
    /\ UNCHANGED <<stores, req>>

(***************************************************************************)
(* Initial state: a catalog with one author, one book and one client, and  *)
(* either no loan or one outstanding loan taken out at time 0.  Books and  *)
(* first loans have no endpoint that creates them: they are seeded rows.   *)
(***************************************************************************)
SeedAuthor == [name |-> "tolkien", biography |-> Some("bio"), date_of_birth |-> Some(1892)]

SeedBook == [isbn |-> "i1", title |-> "hobbit", description |-> "d1", year |-> 1937,
             language |-> "en", author_id |-> 1]

SeedClient == [name |-> "bob", email |-> "bob@x"]

SeedLoan == [book_id |-> 1, client_id |-> 1, loan_date |-> 0, return_date |-> None, fine |-> None]

\* a loan taken out half a day before the start
OlderLoan == [SeedLoan EXCEPT !.loan_date = -1]

\* a loan taken out half a day before the start and brought back at the start
ReturnedLoan == [OlderLoan EXCEPT !.return_date = Some(0)]

OtherBook == [isbn |-> "i9", title |-> "silmarillion", description |-> "d9", year |-> 1977,
              language |-> "en", author_id |-> 1]

Init ==
    /\ authors = <<SeedAuthor>>
    /\ books = <<SeedBook>>
    /\ clients = <<SeedClient>>
    /\ loans \in {<<>>, <<SeedLoan>>}
    /\ clock = 0
    /\ req = [t \in Tasks |-> Idle]

\* book 1 has no loan, an outstanding loan or a returned one; book 2 has none
InitCreate ==
    /\ authors = <<SeedAuthor>>
    /\ books = <<SeedBook, OtherBook>>
    /\ clients = <<SeedClient>>
    /\ loans \in {<<>>, <<SeedLoan>>, <<ReturnedLoan>>}
    /\ clock = 0
    /\ req = [t \in Tasks |-> Idle]

\* one or two outstanding loans
InitReturn ==
    /\ authors = <<SeedAuthor>>
    /\ books = <<SeedBook>>
    /\ clients = <<SeedClient>>
    /\ loans \in {<<SeedLoan>>, <<OlderLoan, SeedLoan>>}
    /\ clock = 0
    /\ req = [t \in Tasks |-> Idle]

(***************************************************************************)
(* DTO layer: which fields of a request body a view lets through, and      *)
(* which it requires.                                                      *)
(***************************************************************************)
AuthorFields == {"name", "biography", "date_of_birth"}

BookFields == {"isbn", "title", "description", "year", "language", "author_id"}

\* AuthorWriteDTO: name is Mapped[str], the other two columns are Optional
AuthorRequired == {"name"}

\* AuthorUpdateDTO: partial=True
AuthorUpdateRequired == {}

\* BookWriteDTO, the view update_book is declared with: no partial=True,
\* and every column of Book outside the exclusions is non-Optional
BookUpdateRequired == BookFields

\* the fields of a body that are not excluded by the view
Accepted(body, fields) == [f \in (DOMAIN body) \cap fields |-> body[f]]

\* the entity a write view builds: absent Optional columns are None
Build(body, fields) == [f \in fields |-> IF f \in DOMAIN body THEN body[f] ELSE None]

(***************************************************************************)
(* AuthorController                                                        *)
(***************************************************************************)
AuthorWriteBodies == {[name |-> "lewis"], [biography |-> Some("b2")]}

AuthorPatchBodies == {[name |-> "jrr"], [biography |-> None, date_of_birth |-> Some(1900)]}

ListAuthors(t) ==
    /\ Free(t)
    /\ req' = [req EXCEPT ![t] = Done("list_authors", 0, 0, <<>>, Ok)]
    /\ UNCHANGED <<stores, clock>>

CreateAuthor(t, body) ==
    /\ Free(t)
    /\ IF ValidWrite(body, AuthorRequired)
       THEN /\ Len(authors) < MaxAuthors
            /\ authors' = RepoAdd(authors, Build(body, AuthorFields))
            /\ req' = [req EXCEPT ![t] = Done("create_author", 0, 0, body, Created)]
       ELSE /\ authors' = authors
            /\ req' = [req EXCEPT ![t] = Done("create_author", 0, 0, body, BadRequest)]
    /\ UNCHANGED <<books, clients, loans, clock>>

GetAuthor(t, author_id) ==
    /\ Free(t)
    /\ req' = [req EXCEPT ![t] = Done("get_author", author_id, 0, <<>>,
                                      IF RepoGet(authors, author_id) = None THEN NotFound ELSE Ok)]
    /\ UNCHANGED <<stores, clock>>

\* mutant: the fields the body leaves out are reset
AuthorUpdateInstanceFull(body) == Build(body, AuthorFields)

\* data.update_instance(author): the attributes set on the loaded author
AuthorUpdateInstance(body) == Accepted(body, AuthorFields)

\* the request arrives; the lookup, the 404, and update_instance
UpdateAuthorGet(t, author_id, body) ==
    /\ Free(t)
    /\ IF ~ ValidWrite(body, AuthorUpdateRequired)
       THEN req' = [req EXCEPT ![t] = Done("update_author", author_id, 0, body, BadRequest)]
       ELSE IF RepoGet(authors, author_id) = None
       THEN req' = [req EXCEPT ![t] = Done("update_author", author_id, 0, body, NotFound)]
       ELSE req' = [req EXCEPT ![t] = Running("update_author", "ua_update", author_id, 0, body,
                                              Some(AuthorUpdateInstance(body)))]
    /\ UNCHANGED <<stores, clock>>

\* authors_repo.update(author) and the response
UpdateAuthorUpdate(t) ==
    /\ req[t].pc = "ua_update"
    /\ authors' = RepoUpdate(authors, req[t].id, Val(req[t].ent))
    /\ req' = [req EXCEPT ![t] = Done("update_author", @.id, 0, @.body, Ok)]
    /\ UNCHANGED <<books, clients, loans, clock>>

(***************************************************************************)
(* BookController                                                          *)
(***************************************************************************)
FullBookBody == [isbn |-> "i2", title |-> "lotr", description |-> "d2", year |-> 1954,
                 language |-> "es", author_id |-> 2]

BookPatchBodies == {[title |-> "lotr"], FullBookBody}

ListBooks(t) ==
    /\ Free(t)
    /\ req' = [req EXCEPT ![t] = Done("list_books", 0, 0, <<>>,
                                      IF books = <<>> THEN NotFound ELSE Ok)]
    /\ UNCHANGED <<stores, clock>>

GetBook(t, book_id) ==
    /\ Free(t)
    /\ req' = [req EXCEPT ![t] = Done("get_book", book_id, 0, <<>>,
                                      IF RepoGet(books, book_id) = None THEN NotFound ELSE Ok)]
    /\ UNCHANGED <<stores, clock>>

\* data.update_instance(book): the attributes set on the loaded book
BookUpdateInstance(body) == Accepted(body, BookFields)

\* the request arrives; the body is validated against the view, then the
\* lookup, the 404, and update_instance
UpdateBookGet(t, book_id, body) ==
    /\ Free(t)
    /\ IF ~ ValidWrite(body, BookUpdateRequired)
       THEN req' = [req EXCEPT ![t] = Done("update_book", book_id, 0, body, BadRequest)]
       ELSE IF RepoGet(books, book_id) = None
       THEN req' = [req EXCEPT ![t] = Done("update_book", book_id, 0, body, NotFound)]
       ELSE req' = [req EXCEPT ![t] = Running("update_book", "ub_update", book_id, 0, body,
                                              Some(BookUpdateInstance(body)))]
    /\ UNCHANGED <<stores, clock>>

ForeignKeyOk(changes) ==
    "author_id" \in DOMAIN changes => changes.author_id \in 1..Len(authors)

\* books_repo.update(book) and the response
\* (author_id is a foreign key to authors.id: a dangling one fails the write)
UpdateBookUpdate(t) ==
    /\ req[t].pc = "ub_update"
    /\ IF ForeignKeyOk(Val(req[t].ent))
       THEN /\ books' = RepoUpdate(books, req[t].id, Val(req[t].ent))
            /\ req' = [req EXCEPT ![t] = Done("update_book", @.id, 0, @.body, Ok)]
       ELSE /\ books' = books
            /\ req' = [req EXCEPT ![t] = Done("update_book", @.id, 0, @.body, ServerError)]
    /\ UNCHANGED <<authors, clients, loans, clock>>

\* books_repo.search_by_title(title): the matching rule is left open, so
\* the result is any subset of the stored books
SearchByTitle(title) == SUBSET (1..Len(books))

SearchBooks(t, title) ==
    /\ Free(t)
    /\ \E found \in SearchByTitle(title) :
          req' = [req EXCEPT ![t] = Done("search_books", 0, 0, <<>>,
                                         IF found = {} THEN NotFound ELSE Ok)]
    /\ UNCHANGED <<stores, clock>>

\* the ids a request may name: every stored one and one that does not resolve
Ids(table) == 1..(Len(table) + 1)

CreateLoanSteps ==
    \/ \E t \in Tasks, b \in Ids(books), c \in Ids(clients) : CreateLoanGet(t, b, c)
    \/ \E t \in Tasks : CreateLoanCheck(t)
    \/ \E t \in Tasks : CreateLoanAdd(t)

ReturnLoanSteps ==
    \/ \E t \in Tasks, l \in Ids(loans) : ReturnLoanGet(t, l)
    \/ \E t \in Tasks : ReturnLoanUpdate(t)

AuthorReadSteps ==
    \/ \E t \in Tasks : ListAuthors(t)
    \/ \E t \in Tasks, a \in Ids(authors) : GetAuthor(t, a)

AuthorWriteSteps ==
    \/ \E t \in Tasks, body \in AuthorWriteBodies : CreateAuthor(t, body)
    \/ \E t \in Tasks, a \in Ids(authors), body \in AuthorPatchBodies : UpdateAuthorGet(t, a, body)
    \/ \E t \in Tasks : UpdateAuthorUpdate(t)

BookSteps ==
    \/ \E t \in Tasks : ListBooks(t)
    \/ \E t \in Tasks, b \in Ids(books) : GetBook(t, b)
    \/ \E t \in Tasks, b \in Ids(books), body \in BookPatchBodies : UpdateBookGet(t, b, body)
    \/ \E t \in Tasks : UpdateBookUpdate(t)
    \/ \E t \in Tasks : SearchBooks(t, "hobbit")

ClientSteps ==
    \/ \E t \in Tasks : ListClients(t)
    \/ \E t \in Tasks, body \in ClientBodies : CreateClient(t, body)

NextLoans == CreateLoanSteps \/ ReturnLoanSteps \/ Tick

\* the loan requests served at one instant
NextRequests == CreateLoanSteps \/ ReturnLoanSteps

NextCreate == CreateLoanSteps \/ Tick

NextReturn == ReturnLoanSteps \/ Tick

NextAuthors == AuthorWriteSteps

NextCatalog == AuthorReadSteps \/ AuthorWriteSteps \/ BookSteps \/ ClientSteps

Next == NextLoans \/ NextCatalog

\* every endpoint
Spec == Init /\ [][Next]_vars

\* the loan endpoints and the clock
SpecLoans == Init /\ [][NextLoans]_vars

\* the loan endpoints, every request served at the starting instant
SpecRequests == Init /\ [][NextRequests]_vars

\* create_loan requests alone, on a store with a lent book and a free one
SpecCreate == InitCreate /\ [][NextCreate]_vars

\* return_loan requests alone, on a store with outstanding loans
SpecReturn == InitReturn /\ [][NextReturn]_vars

\* the author endpoints that write
SpecAuthors == Init /\ [][NextAuthors]_vars

\* the author, book and client endpoints
SpecCatalog == Init /\ [][NextCatalog]_vars

(***************************************************************************)
(* Properties.                                                             *)
(***************************************************************************)
LoanIndex == 1..Len(loans)

\* slot t receives a request for op in this step
Arrives(t, op) == Free(t) /\ req'[t] # req[t] /\ req'[t].op = op

\* slot t leaves the position pc in this step
Leaves(t, pc) == req[t].pc = pc /\ req'[t] # req[t]

Finished(t, op, status) == req[t].pc = "done" /\ req[t].op = op /\ req[t].status = status

Outstanding(book_id) ==
    \E i \in LoanIndex : loans[i].book_id = book_id /\ loans[i].return_date = None

\* C1: once a loan's return_date is set, no step clears or changes it (a
\* loan is returned at most once).
C1_ReturnDateFrozen ==
    [][\A i \in LoanIndex :
          loans[i].return_date # None =>
              /\ i <= Len(loans')
              /\ loans'[i].return_date = loans[i].return_date]_vars

\* C2: return_loan on a loan whose return_date is set answers 400, and on a
\* loan id that does not resolve answers 404; either way no record changes.
C2_ReturnRejected ==
    [][\A t \in Tasks :
          Arrives(t, "return_loan") =>
              LET l == req'[t].id
              IN  /\ l \notin LoanIndex =>
                        /\ req'[t].pc = "done" /\ req'[t].status = 404
                        /\ stores' = stores
                  /\ (l \in LoanIndex /\ loans[l].return_date # None) =>
                        /\ req'[t].pc = "done" /\ req'[t].status = 400
                        /\ stores' = stores]_vars

C2_Witness ==
    \E t, u \in Tasks :
        /\ Finished(t, "return_loan", 400)
        /\ req[t].id \in LoanIndex /\ loans[req[t].id].return_date # None
        /\ Finished(u, "return_loan", 404)
        /\ req[u].id \notin LoanIndex

\* C3: a return_loan that finds the loan unreturned stamps return_date with
\* the current time and, with due = loan_date + 7 days, assigns the fine
\* 0.5 * (whole days of return_date - due) when return_date > due and no fine
\* otherwise (none at exactly 7 days, 1.0 at 9 days); the update persists
\* exactly these assignments.
C3_ReturnStampsAndFines ==
    [][\A t \in Tasks :
          /\ (Arrives(t, "return_loan") /\ req'[t].pc = "rl_update") =>
                LET l == req'[t].id
                    set == Val(req'[t].ent)
                    late == clock - (loans[l].loan_date + 7 * TicksPerDay)
                IN  /\ loans[l].return_date = None
                    /\ set.return_date = Some(clock)
                    /\ late > 0 => /\ "fine" \in DOMAIN set
                                   /\ set.fine = Some(50 * (late \div TicksPerDay))
                    /\ late <= 0 => "fine" \notin DOMAIN set
                    /\ late = 2 * TicksPerDay => set.fine = Some(100)
                    /\ stores' = stores
          /\ Leaves(t, "rl_update") =>
                LET l == req[t].id
                    set == Val(req[t].ent)
                IN  /\ req'[t].pc = "done" /\ req'[t].status = 200
                    /\ loans'[l].return_date = set.return_date
                    /\ loans'[l].fine = IF "fine" \in DOMAIN set THEN set.fine ELSE loans[l].fine
                    /\ loans[l].return_date = None => loans[l].fine = None
                    /\ loans'[l].loan_date = loans[l].loan_date
                    /\ \A i \in LoanIndex \ {l} : loans'[i] = loans[i]
                    /\ Len(loans') = Len(loans)]_vars

C3_Witness ==
    \E t \in Tasks :
        /\ Finished(t, "return_loan", 200)
        /\ LET loan == loans[req[t].id]
           IN  /\ loan.return_date = Some(loan.loan_date + 9 * TicksPerDay)
               /\ loan.fine = Some(100)

\* C4 as stated: return_date is absent or strictly later than loan_date, and
\* a fine is non-negative and a multiple of 0.5.
C4_ReturnStrictlyLater ==
    \A i \in LoanIndex :
        /\ loans[i].return_date = None \/ Val(loans[i].return_date) > loans[i].loan_date
        /\ loans[i].fine # None => Val(loans[i].fine) >= 0 /\ Val(loans[i].fine) % 50 = 0

\* C4 amended: return_date is absent or not earlier than loan_date, and a
\* fine is non-negative and a multiple of 0.5.
C4_ReturnNotEarlier ==
    \A i \in LoanIndex :
        /\ loans[i].return_date = None \/ Val(loans[i].return_date) >= loans[i].loan_date
        /\ loans[i].fine # None => Val(loans[i].fine) >= 0 /\ Val(loans[i].fine) % 50 = 0

C4_Witness ==
    /\ \E i \in LoanIndex : loans[i].return_date = Some(loans[i].loan_date)
    /\ \E i \in LoanIndex : loans[i].fine # None /\ Val(loans[i].fine) > 0

\* C5: create_loan with a book id or a client id that does not resolve
\* answers 404 and the stored loans (and every other table) stay as they were.
C5_CreateLoanNotFound ==
    [][\A t \in Tasks :
          (/\ Arrives(t, "create_loan")
           /\ req'[t].id \notin 1..Len(books) \/ req'[t].id2 \notin 1..Len(clients)) =>
              /\ req'[t].pc = "done" /\ req'[t].status = 404
              /\ loans' = loans
              /\ stores' = stores]_vars

C5_Witness ==
    \E t, u \in Tasks :
        /\ Finished(t, "create_loan", 404)
        /\ req[t].id \notin 1..Len(books) /\ req[t].id2 \in 1..Len(clients)
        /\ Finished(u, "create_loan", 404)
        /\ req[u].id \in 1..Len(books) /\ req[u].id2 \notin 1..Len(clients)

\* C6: for an existing book and client, create_loan answers 400 and persists
\* nothing when the book has no unreturned loan; otherwise it persists exactly
\* one new loan for that book and client, loan_date the time read by the
\* handler, return_date and fine absent.
C6_CreateLoanPolarity ==
    [][\A t \in Tasks :
          /\ (/\ Arrives(t, "create_loan")
              /\ req'[t].id \in 1..Len(books) /\ req'[t].id2 \in 1..Len(clients)) =>
                /\ req'[t].pc = "cl_check"
                /\ stores' = stores
          /\ Leaves(t, "cl_check") =>
                /\ stores' = stores
                /\ ~ Outstanding(req[t].id) =>
                      req'[t].pc = "done" /\ req'[t].status = 400
                /\ Outstanding(req[t].id) =>
                      /\ req'[t].pc = "cl_add"
                      /\ req'[t].ent = Some([book_id |-> req[t].id, client_id |-> req[t].id2,
                                             loan_date |-> clock, return_date |-> None,
                                             fine |-> None])
          /\ Leaves(t, "cl_add") =>
                /\ req'[t].pc = "done" /\ req'[t].status = 201
                /\ loans' = Append(loans, Val(req[t].ent))
                /\ Val(req[t].ent).return_date = None /\ Val(req[t].ent).fine = None
                /\ <<authors', books', clients'>> = <<authors, books, clients>>]_vars

C6_Witness ==
    \E t, u \in Tasks :
        /\ Finished(t, "create_loan", 201)
        /\ Finished(u, "create_loan", 400)
        /\ \E i \in LoanIndex : loans[i].book_id = req[t].id /\ loans[i].loan_date > 0

\* C7: the availability check and the insert of create_loan are two steps:
\* the check persists nothing, and the insert of one request neither
\* re-validates nor disturbs another request that has already passed the
\* check for the same book, so both inserts go through.
C7_CheckThenInsert ==
    [][\A t \in Tasks :
          /\ Leaves(t, "cl_check") => loans' = loans
          /\ Leaves(t, "cl_add") =>
                /\ Len(loans') = Len(loans) + 1
                /\ \A u \in Tasks \ {t} : req'[u] = req[u]]_vars

\* two requests for the same book are past the check, neither has inserted
C7_Witness ==
    \E t, u \in Tasks :
        /\ t # u
        /\ req[t].pc = "cl_add" /\ req[u].pc = "cl_add"
        /\ req[t].id = req[u].id
        /\ Len(loans) + 2 <= MaxLoans

\* C10: while no loan is stored, a create_loan that reaches the availability
\* check is answered 400 and no step persists a loan: an empty loans table
\* stays empty.
C10_EmptyStaysEmpty ==
    [][loans = <<>> =>
          /\ loans' = <<>>
          /\ \A t \in Tasks :
                Leaves(t, "cl_check") => req'[t].pc = "done" /\ req'[t].status = 400]_vars

C10_Witness ==
    /\ loans = <<>>
    /\ \E t \in Tasks :
          /\ Finished(t, "create_loan", 400)
          /\ req[t].id \in 1..Len(books) /\ req[t].id2 \in 1..Len(clients)

\* C8: update_author on an existing author writes exactly the supplied
\* fields: each field the body leaves out keeps the stored value, the table
\* keeps its ids, no other author and no book (hence no author's books
\* collection) changes; on an id that does not resolve it answers 404 and
\* changes nothing.
C8_AuthorPartialUpdate ==
    [][\A t \in Tasks :
          /\ Arrives(t, "update_author") =>
                /\ stores' = stores
                /\ req'[t].id \notin 1..Len(authors) =>
                      req'[t].pc = "done" /\ req'[t].status = 404
                /\ req'[t].id \in 1..Len(authors) => req'[t].pc = "ua_update"
          /\ Leaves(t, "ua_update") =>
                LET a == req[t].id
                    body == req[t].body
                IN  /\ req'[t].pc = "done" /\ req'[t].status = 200
                    /\ Len(authors') = Len(authors)
                    /\ \A f \in {"name", "biography", "date_of_birth"} :
                          authors'[a][f] = IF f \in DOMAIN body THEN body[f] ELSE authors[a][f]
                    /\ \A i \in (1..Len(authors)) \ {a} : authors'[i] = authors[i]
                    /\ <<books', clients', loans'>> = <<books, clients, loans>>]_vars

C8_Witness ==
    \E t, u \in Tasks :
        /\ Finished(t, "update_author", 200)
        /\ DOMAIN req[t].body = {"name"}
        /\ authors[req[t].id].name = req[t].body.name
        /\ authors[req[t].id].biography = Some("bio")
        /\ authors[req[t].id].date_of_birth = Some(1892)
        /\ Finished(u, "update_author", 404)

\* C9: update_book on an existing book accepts a body that supplies only a
\* subset of the updatable fields, applies the supplied fields, keeps every
\* field not supplied, and never changes the book's id or author.
C9_BookPartialUpdate ==
    [][\A t \in Tasks :
          /\ (Arrives(t, "update_book") /\ req'[t].id \in 1..Len(books)) =>
                /\ req'[t].pc = "ub_update"
                /\ stores' = stores
          /\ Leaves(t, "ub_update") =>
                LET b == req[t].id
                    body == req[t].body
                IN  /\ req'[t].pc = "done" /\ req'[t].status = 200
                    /\ Len(books') = Len(books)
                    /\ \A f \in {"isbn", "title", "description", "year", "language"} :
                          books'[b][f] = IF f \in DOMAIN body THEN body[f] ELSE books[b][f]
                    /\ books'[b].author_id = books[b].author_id]_vars

====
